---- MODULE Spec2Model ----
(***************************************************************************)
(* Model of uuidfield/fields.py: UUIDField, a Django model field that      *)
(* stores a UUID.  The module is Python 2 code (unicode, __metaclass__),   *)
(* so a str is a byte string: text and raw bytes are the same type, a      *)
(* sequence of character codes 0..255.                                     *)
(*                                                                         *)
(* A Python value is a record [kind, data]:                                *)
(*   kind "None"  data <<>>                 None                           *)
(*   kind "str"   data = character codes    a str (text or raw bytes)      *)
(*   kind "UUID"  data = 16 bytes           uuid.UUID, its 128-bit int in  *)
(*                                          big-endian base 256            *)
(*   kind "int"   data = <<n>>              an int                         *)
(*   kind "connection" data = vendor text   a database connection          *)
(*   kind "unset" data <<>>                 an attribute never assigned    *)
(*   kind "ValueError" / "TypeError" / "AttributeError"                    *)
(*                                          the exception a call raised    *)
(***************************************************************************)
EXTENDS Integers, Sequences, FiniteSets, TLC

VARIABLES field, ctor, instance, call

vars == <<field, ctor, instance, call>>

\* Number of sample UUID values the inputs are built from.
NumUUIDs == 3

------------------------------------------------------------------------------
(* Python values *)

None == [kind |-> "None", data |-> <<>>]
Unset == [kind |-> "unset", data |-> <<>>]
Str(s) == [kind |-> "str", data |-> s]
UUID(b) == [kind |-> "UUID", data |-> b]
PyInt(n) == [kind |-> "int", data |-> <<n>>]
Raise(e) == [kind |-> e, data |-> <<>>]

Raised(v) == v.kind \in {"ValueError", "TypeError", "AttributeError"}

\* Python truthiness of the values in play: None and '' are false, a UUID
\* object (no __nonzero__, no __len__) is always true.
Truthy(v) ==
  CASE v.kind = "None" -> FALSE
    [] v.kind = "str" -> Len(v.data) > 0
    [] v.kind = "int" -> v.data[1] # 0
    [] OTHER -> TRUE

------------------------------------------------------------------------------
(* Character helpers: '0'..'9' = 48..57, 'A'..'F' = 65..70,                *)
(* 'a'..'f' = 97..102, '-' = 45.                                           *)

IsHexChar(c) == c \in 48..57 \/ c \in 65..70 \/ c \in 97..102

HexVal(c) ==
  IF c \in 48..57 THEN c - 48
  ELSE IF c \in 97..102 THEN c - 87
  ELSE c - 55

HexChar(n) == IF n < 10 THEN 48 + n ELSE 87 + n

\* str.lower()
lower(s) == [i \in 1..Len(s) |-> IF s[i] \in 65..90 THEN s[i] + 32 ELSE s[i]]

\* str.upper()
upper(s) == [i \in 1..Len(s) |-> IF s[i] \in 97..122 THEN s[i] - 32 ELSE s[i]]

\* s.replace('-', '')
replace_dash(s) == SelectSeq(s, LAMBDA c : c # 45)

\* sub in s
RECURSIVE ContainsFrom(_, _, _)
ContainsFrom(sub, s, i) ==
  IF i + Len(sub) - 1 > Len(s) THEN FALSE
  ELSE IF SubSeq(s, i, i + Len(sub) - 1) = sub THEN TRUE
  ELSE ContainsFrom(sub, s, i + 1)

Contains(sub, s) == ContainsFrom(sub, s, 1)

\* '%s' % n for a natural number n
RECURSIVE Decimal(_)
Decimal(n) == IF n < 10 THEN <<48 + n>> ELSE Decimal(n \div 10) \o <<48 + (n % 10)>>

------------------------------------------------------------------------------
(* The standard library calls the field makes *)

\* uuid.UUID.hex: 32 lowercase hexadecimal digits
uuid_hex(u) ==
  [i \in 1..32 |->
     IF i % 2 = 1 THEN HexChar(u.data[(i + 1) \div 2] \div 16)
     ELSE HexChar(u.data[i \div 2] % 16)]

\* uuid.UUID.bytes: the 16 raw bytes
uuid_bytes(u) == u.data

\* str(uuid.UUID): 8-4-4-4-12 lowercase hexadecimal digits
uuid_str(u) ==
  LET h == uuid_hex(u)
  IN  SubSeq(h, 1, 8) \o <<45>> \o SubSeq(h, 9, 12) \o <<45>> \o SubSeq(h, 13, 16)
        \o <<45>> \o SubSeq(h, 17, 20) \o <<45>> \o SubSeq(h, 21, 32)

\* binascii.unhexlify(s): TypeError on an odd length or a non-hex digit
unhexlify(s) ==
  IF Len(s) % 2 = 1 \/ \E i \in 1..Len(s) : ~IsHexChar(s[i])
  THEN Raise("TypeError")
  ELSE Str([i \in 1..(Len(s) \div 2) |->
              HexVal(s[2 * i - 1]) * 16 + HexVal(s[2 * i])])

\* uuid.UUID(hex): dashes dropped, then exactly 32 hexadecimal digits.  The
\* inputs here are hex digits, dashes and other letters; the 'urn:uuid:' and
\* '{...}' wrappers and the '0x' prefix the library also accepts are not
\* among them.
UUID_hex(s) ==
  LET h == replace_dash(s)
  IN  IF Len(h) # 32 \/ \E i \in 1..Len(h) : ~IsHexChar(h[i])
      THEN Raise("ValueError")
      ELSE UUID([i \in 1..16 |-> HexVal(h[2 * i - 1]) * 16 + HexVal(h[2 * i])])

\* uuid.UUID(bytes=b): exactly 16 bytes
UUID_bytes(b) == IF Len(b) # 16 THEN Raise("ValueError") ELSE UUID(b)

------------------------------------------------------------------------------
(* Sample values *)

\* 16 bytes to build UUIDs from: the nil UUID, the bytes that spell
\* '0123456789abcdef', then bytes mixing digits and letters.
SampleBytes(i) ==
  CASE i = 1 -> [k \in 1..16 |-> 0]
    [] i = 2 -> [k \in 1..16 |-> HexChar(k - 1)]
    [] OTHER -> [k \in 1..16 |-> (i * 29 * k + 83 * i + 45) % 256]

\* What the uuid module does to the bytes of a generated UUID: the version
\* in the high nibble of byte 7, the RFC 4122 variant in byte 9.
Stamp(version, b) ==
  [k \in 1..16 |->
     IF k = 7 THEN version * 16 + (b[k] % 16)
     ELSE IF k = 9 THEN 128 + (b[k] % 64)
     ELSE b[k]]

\* Hand-constructed UUID values.
Samples == {UUID(SampleBytes(i)) : i \in 1..NumUUIDs}

------------------------------------------------------------------------------
(* Database connections: connection.vendor is the dialect identifier *)

Connection(vendor) == [kind |-> "connection", data |-> vendor]

\* 'postgresql'
VendorPostgresql == <<112, 111, 115, 116, 103, 114, 101, 115, 113, 108>>
\* 'mysql'
VendorMysql == <<109, 121, 115, 113, 108>>
\* 'sqlite'
VendorSqlite == <<115, 113, 108, 105, 116, 101>>
\* 'oracle'
VendorOracle == <<111, 114, 97, 99, 108, 101>>

Vendors == {VendorPostgresql, VendorMysql, VendorSqlite, VendorOracle}

\* What a caller passes as connection: a connection, or None (the default).
Connections == {Connection(v) : v \in Vendors} \cup {None}

------------------------------------------------------------------------------
(* UUIDField *)

\* As UUIDField.__init__, but a max_length the caller passes is kept
\* (kwargs.setdefault in place of the assignment).
UUIDField_init_keep_max_length(version, node, clock_seq, namespace, name, auto, max_length) ==
  [version    |-> version,
   auto       |-> auto,
   max_length |-> IF max_length = None THEN 32 ELSE max_length.data[1],
   editable   |-> ~auto,
   blank      |-> auto,
   unique     |-> auto,
   node       |-> IF version = 1 THEN node ELSE Unset,
   clock_seq  |-> IF version = 1 THEN clock_seq ELSE Unset,
   namespace  |-> IF version \in {3, 5} THEN namespace ELSE Unset,
   name       |-> IF version \in {3, 5} THEN name ELSE Unset]

\* UUIDField.__init__: kwargs['max_length'] = 32 replaces whatever the caller
\* passed; Field.__init__ then stores the keyword arguments as attributes.
UUIDField_init(version, node, clock_seq, namespace, name, auto, max_length) ==
  [version    |-> version,
   auto       |-> auto,
   max_length |-> 32,
   editable   |-> ~auto,
   blank      |-> auto,
   unique     |-> auto,
   node       |-> IF version = 1 THEN node ELSE Unset,
   clock_seq  |-> IF version = 1 THEN clock_seq ELSE Unset,
   namespace  |-> IF version \in {3, 5} THEN namespace ELSE Unset,
   name       |-> IF version \in {3, 5} THEN name ELSE Unset]

\* uuid.uuid1(node, clock_seq): time based; a given node is the last six bytes.
uuid1(node, clock_seq) ==
  {UUID(Stamp(1, [k \in 1..16 |->
                    IF node.kind = "int" /\ k > 10
                    THEN (IF k = 16 THEN node.data[1] % 256 ELSE 0)
                    ELSE SampleBytes(i)[k]])) : i \in 1..NumUUIDs}

\* uuid.uuid4(): random
uuid4 == {UUID(Stamp(4, SampleBytes(i))) : i \in 1..NumUUIDs}

\* uuid.uuid3 / uuid.uuid5 (namespace, name): a digest of namespace.bytes + name,
\* a different digest for each version; the concatenation is a TypeError when
\* name is None.
uuid_hashed(version, namespace, name) ==
  IF name.kind # "str" THEN {Raise("TypeError")}
  ELSE {UUID(Stamp(version,
          [k \in 1..16 |->
             (namespace.data[k] * (version + 2) + k * version
                + (IF Len(name.data) = 0 THEN 0
                   ELSE name.data[((k - 1) % Len(name.data)) + 1])) % 256]))}

\* UUIDField._create_uuid: the set of its possible outcomes.  `error` is set to
\* None and never assigned again: the two tests above it only set error_attr.
create_uuid(f) ==
  IF f.version = 1 THEN uuid1(f.node, f.clock_seq)
  ELSE IF f.version \in {3, 5} THEN
    LET error == None
        error_attr == IF f.name = None THEN "name"
                      ELSE IF f.namespace = None THEN "namespace"
                      ELSE "unbound"
    IN  IF error # None THEN {Raise("ValueError")}
        ELSE IF f.namespace.kind # "UUID" THEN {Raise("ValueError")}
        ELSE uuid_hashed(f.version, f.namespace, f.name)
  ELSE uuid4

\* UUIDField.db_type
db_type(f, connection) ==
  IF Truthy(connection) /\ Contains(<<112, 111, 115, 116, 103, 114, 101, 115>>, connection.data)
  THEN Str(<<117, 117, 105, 100>>)                                 \* 'uuid'
  ELSE IF Truthy(connection) /\ Contains(<<109, 121, 115, 113, 108>>, connection.data)
  THEN Str(<<98, 105, 110, 97, 114, 121, 40, 49, 54, 41>>)         \* 'binary(16)'
  ELSE Str(<<99, 104, 97, 114, 40>> \o Decimal(f.max_length) \o <<41>>)  \* 'char(%s)'

\* UUIDField._db_is_binary
db_is_binary(f, con) ==
  db_type(f, con) = Str(<<98, 105, 110, 97, 114, 121, 40, 49, 54, 41>>)

\* As get_db_prep_value, without the removal of the dashes.
get_db_prep_value_keep_dash(f, value, connection) ==
  LET binary == db_is_binary(f, connection)
  IN  IF value.kind = "UUID"
      THEN (IF binary THEN Str(uuid_bytes(value)) ELSE Str(uuid_hex(value)))
      ELSE IF value.kind # "str" THEN Raise("AttributeError")
      ELSE IF binary THEN unhexlify(value.data) ELSE Str(value.data)

\* UUIDField.get_db_prep_value.  value.lower() is evaluated and its result
\* dropped: the text goes on with its letter case as given.
get_db_prep_value(f, value, connection) ==
  LET binary == db_is_binary(f, connection)
  IN  IF value.kind = "UUID"
      THEN (IF binary THEN Str(uuid_bytes(value)) ELSE Str(uuid_hex(value)))
      ELSE IF value.kind # "str" THEN Raise("AttributeError")
      ELSE LET lowered == lower(value.data)
               stripped == replace_dash(value.data)
           IN  IF binary THEN unhexlify(stripped) ELSE Str(stripped)

\* As to_python, without the branch for 16 raw bytes.
to_python_no_binary(value) ==
  IF ~Truthy(value) THEN None
  ELSE IF value.kind = "UUID" THEN value
  ELSE UUID_hex(value.data)

\* As to_python, with `value is None` for `not value`.
to_python_none_only(value) ==
  IF value = None THEN None
  ELSE IF value.kind = "UUID" THEN value
  ELSE IF Len(value.data) = 16 THEN UUID_bytes(value.data)
  ELSE UUID_hex(value.data)

\* As to_python, with a parsing error swallowed and None returned.
to_python_lenient(value) ==
  IF ~Truthy(value) THEN None
  ELSE IF value.kind = "UUID" THEN value
  ELSE IF Len(value.data) = 16 THEN UUID_bytes(value.data)
  ELSE IF Raised(UUID_hex(value.data)) THEN None
  ELSE UUID_hex(value.data)

\* UUIDField.to_python
to_python(value) ==
  IF ~Truthy(value) THEN None
  ELSE IF value.kind = "UUID" THEN value
  ELSE IF Len(value.data) = 16 THEN UUID_bytes(value.data)
  ELSE UUID_hex(value.data)

\* UUIDField.value_to_string: unicode(val) of a UUID is its dashed form
value_to_string(val) ==
  IF val = None THEN Str(<<>>)
  ELSE IF val.kind = "UUID" THEN Str(uuid_str(val))
  ELSE Str(val.data)

\* As pre_save, without the setattr on the record.
pre_save_no_setattr(f, attr, add) ==
  IF f.auto /\ add /\ ~Truthy(attr)
  THEN {IF Raised(u) THEN <<attr, u>> ELSE <<attr, Str(uuid_hex(u))>> :
          u \in create_uuid(f)}
  ELSE {<<attr, attr>>}

\* As pre_save, without the test of `add`.
pre_save_on_update(f, attr, add) ==
  IF f.auto /\ ~Truthy(attr)
  THEN {IF Raised(u) THEN <<attr, u>> ELSE <<u, Str(uuid_hex(u))>> :
          u \in create_uuid(f)}
  ELSE {<<attr, attr>>}

\* As pre_save, without the test of the current value.
pre_save_regenerate(f, attr, add) ==
  IF f.auto /\ add
  THEN {IF Raised(u) THEN <<attr, u>> ELSE <<u, Str(uuid_hex(u))>> :
          u \in create_uuid(f)}
  ELSE {<<attr, attr>>}

\* UUIDField.pre_save: <<the attribute afterwards, the outcome>> for each UUID
\* the generator may produce.
pre_save(f, attr, add) ==
  LET value == attr
  IN  IF f.auto /\ add /\ ~Truthy(value)
      THEN {IF Raised(u) THEN <<attr, u>> ELSE <<u, Str(uuid_hex(u))>> :
              u \in create_uuid(f)}
      ELSE {<<attr, value>>}

------------------------------------------------------------------------------
(* Inputs *)

\* The forms in which a caller or a database hands over the UUID u: the object,
\* its hex and dashed text in either letter case, its 16 raw bytes.
FormsOf(u) ==
  {u, Str(uuid_hex(u)), Str(upper(uuid_hex(u))), Str(uuid_str(u)),
   Str(upper(uuid_str(u))), Str(uuid_bytes(u))}

\* Text that is no UUID: a non-hex letter ('g') in 32 characters, 31 and 33
\* hex digits, the first 16 and 15 hex digits, and 'not-a-uuid-value'.
Malformed ==
  LET h == uuid_hex(UUID(SampleBytes(NumUUIDs)))
  IN  {Str(<<103>> \o Tail(h)), Str(Tail(h)), Str(h \o <<48>>),
       Str(SubSeq(h, 1, 16)), Str(SubSeq(h, 1, 15)),
       Str(<<110, 111, 116, 45, 97, 45, 117, 117, 105, 100, 45, 118, 97, 108, 117, 101>>)}

\* Hand-constructed and generated UUID values.
UUIDs == Samples \cup uuid4

Inputs == UNION {FormsOf(u) : u \in UUIDs} \cup Malformed \cup {None, Str(<<>>)}

\* What a caller assigns to the record's attribute.
Assigned ==
  Samples \cup {Str(uuid_str(u)) : u \in Samples}
    \cup {None, Str(<<>>), Str(<<103>> \o Tail(uuid_hex(UUID(SampleBytes(NumUUIDs)))))}

\* Constructor arguments.
Namespaces == {None, UUID(SampleBytes(NumUUIDs)), Str(uuid_str(UUID(SampleBytes(NumUUIDs))))}
\* None, or 'example'
Names == {None, Str(<<101, 120, 97, 109, 112, 108, 101>>)}
Nodes == {None, PyInt(1)}
MaxLengths == {None, PyInt(255)}

------------------------------------------------------------------------------
(* State machine *)

\* The last call made on the field: its name, its arguments, what it returned
\* or raised.  `arg` of pre_save and value_to_string is the record's attribute
\* as the call found it; `source` of a to_python that reads a stored value
\* back is the value get_db_prep_value was given.
Call(op, arg, connection, add, source, ret) ==
  [op |-> op, arg |-> arg, connection |-> connection, add |-> add,
   source |-> source, ret |-> ret]

\* A field is constructed once, when the model class is defined; a new record's
\* attribute is None.
Init ==
  \E version \in {1, 3, 4, 5}, node \in Nodes, namespace \in Namespaces,
     name \in Names, auto \in BOOLEAN, max_length \in MaxLengths :
    /\ field = UUIDField_init(version, node, None, namespace, name, auto, max_length)
    /\ ctor = [max_length |-> max_length]
    /\ instance = None
    /\ call = Call("__init__", None, None, FALSE, None, None)

\* field._create_uuid()
CreateUuid ==
  /\ \E u \in create_uuid(field) :
       call' = Call("_create_uuid", None, None, FALSE, None, u)
  /\ UNCHANGED <<field, ctor, instance>>

\* field.db_type(connection)
DbType(connection) ==
  /\ call' = Call("db_type", None, connection, FALSE, None, db_type(field, connection))
  /\ UNCHANGED <<field, ctor, instance>>

\* field.pre_save(model_instance, add)
PreSave(add) ==
  /\ \E r \in pre_save(field, instance, add) :
       /\ instance' = r[1]
       /\ call' = Call("pre_save", instance, None, add, None, r[2])
  /\ UNCHANGED <<field, ctor>>

\* model_instance.<attname> = v.  The field's metaclass is SubfieldBase, whose
\* descriptor stores field.to_python(v); nothing is stored when that raises.
SetAttr(v) ==
  /\ LET r == to_python(v)
     IN  /\ instance' = IF Raised(r) THEN instance ELSE r
         /\ call' = Call("__set__", v, None, FALSE, None, r)
  /\ UNCHANGED <<field, ctor>>

\* field.get_db_prep_value(value, connection)
GetDbPrepValue(value, connection) ==
  /\ call' = Call("get_db_prep_value", value, connection, FALSE, None,
                  get_db_prep_value(field, value, connection))
  /\ UNCHANGED <<field, ctor, instance>>

\* field.to_python(value)
ToPython(value, source, connection) ==
  /\ call' = Call("to_python", value, connection, FALSE, source, to_python(value))
  /\ UNCHANGED <<field, ctor, instance>>

\* field.value_to_string(model_instance)
ValueToString ==
  /\ call' = Call("value_to_string", instance, None, FALSE, None, value_to_string(instance))
  /\ UNCHANGED <<field, ctor, instance>>

\* The framework's write path: what pre_save returned is prepared for the
\* backend.
Save(connection) ==
  /\ call.op = "pre_save"
  /\ ~Raised(call.ret)
  /\ GetDbPrepValue(call.ret, connection)

\* The framework's read path: the stored value is converted back.
Fetch ==
  /\ call.op = "get_db_prep_value"
  /\ ~Raised(call.ret)
  /\ ToPython(call.ret, call.arg, call.connection)

\* One record through its life: assignments, saves, reads.
Next ==
  \/ \E add \in BOOLEAN : PreSave(add)
  \/ \E v \in Assigned : SetAttr(v)
  \/ CreateUuid
  \/ \E c \in Connections : DbType(c)
  \/ ValueToString
  \/ \E c \in Connections : Save(c)
  \/ Fetch

Spec == Init /\ [][Next]_vars

\* The conversions on every input, for a field built with the default
\* version and auto.
InitConv == Init /\ field.version = 4 /\ ~field.auto

NextConv ==
  \/ \E v \in Inputs, c \in Connections : GetDbPrepValue(v, c)
  \/ \E v \in Inputs : ToPython(v, None, None)
  \/ Fetch
  \/ \E c \in Connections : DbType(c)

SpecConv == InitConv /\ [][NextConv]_vars

------------------------------------------------------------------------------
(* Properties *)

\* Dashed or undashed text of 32 hexadecimal digits.
ValidHex(s) ==
  LET h == replace_dash(s)
  IN  Len(h) = 32 /\ \A i \in 1..32 : IsHexChar(h[i])

\* Printable ASCII text.
IsText(s) == \A i \in 1..Len(s) : s[i] \in 32..126

\* The string literals db_type returns.
TypeUuid == Str(<<117, 117, 105, 100>>)
TypeBinary16 == Str(<<98, 105, 110, 97, 114, 121, 40, 49, 54, 41>>)
TypeChar32 == Str(<<99, 104, 97, 114, 40, 51, 50, 41>>)

\* C1: round trip.  Whenever to_python reads back what get_db_prep_value
\* stored for a UUID object, on any backend, it returns a UUID equal to it.
C1_RoundTrip ==
  (call.op = "to_python" /\ call.source.kind = "UUID") => call.ret = call.source

\* A generated UUID was stored as 16 raw bytes on MySQL and read back.
C1_Witness ==
  /\ call.op = "to_python"
  /\ call.source \in uuid4
  /\ call.connection = Connection(VendorMysql)
  /\ call.arg = Str(uuid_bytes(call.source))
  /\ call.ret = call.source

\* C2: textual input to get_db_prep_value is lowercased and stripped of
\* dashes: the 32 lowercase hex digits on a non-binary backend, their 16-byte
\* decoding on a binary one.
C2_Normalized ==
  (call.op = "get_db_prep_value" /\ call.arg.kind = "str" /\ ValidHex(call.arg.data))
    => LET normal == lower(replace_dash(call.arg.data))
       IN  IF call.connection.kind = "connection"
              /\ Contains(VendorMysql, call.connection.data)
           THEN call.ret = unhexlify(normal)
           ELSE call.ret = Str(normal) /\ Len(call.ret.data) = 32

\* C3: for versions 3 and 5, _create_uuid raises the field's ValueError when
\* name is unset, when namespace is unset and when namespace is no UUID, and
\* returns a UUID otherwise.
C3_Validation ==
  (call.op = "_create_uuid" /\ field.version \in {3, 5})
    => IF field.name = None \/ field.namespace.kind # "UUID"
       THEN call.ret.kind = "ValueError"
       ELSE call.ret.kind = "UUID"

\* C4: pre_save on an auto field, on insert, with an empty attribute, when
\* generation succeeds: the attribute is now a UUID the generator produces,
\* the return value is the 32 dash-free hex digits of that same UUID, and
\* to_python of it, as returned or as prepared for any backend, is the UUID
\* the record holds.
C4_AutoInsert ==
  (/\ call.op = "pre_save"
   /\ field.auto
   /\ call.add
   /\ ~Truthy(call.arg)
   /\ ~Raised(call.ret))
    => /\ instance.kind = "UUID"
       /\ instance \in create_uuid(field)
       /\ call.ret = Str(uuid_hex(instance))
       /\ Len(call.ret.data) = 32
       /\ \A i \in 1..32 : call.ret.data[i] # 45
       /\ to_python(call.ret) = instance
       /\ \A c \in Connections :
            to_python(get_db_prep_value(field, call.ret, c)) = instance

\* An auto field generated a value for a record whose attribute was None.
C4_Witness ==
  /\ call.op = "pre_save"
  /\ field.auto
  /\ call.add
  /\ call.arg = None
  /\ instance.kind = "UUID"
  /\ call.ret = Str(uuid_hex(instance))

\* C5: a pre_save that is not (auto, insert, empty attribute) returns the
\* attribute as it is and leaves the record alone; db_type, get_db_prep_value,
\* to_python and value_to_string leave the record alone; no call changes the
\* field's configuration.
C5_Frame ==
  [][/\ (call'.op = "pre_save" /\ ~(field.auto /\ call'.add /\ ~Truthy(instance)))
          => (instance' = instance /\ call'.ret = instance)
     /\ call'.op \in {"db_type", "get_db_prep_value", "to_python", "value_to_string"}
          => instance' = instance
     /\ field' = field]_vars

\* An insert on a field that is not auto, with an empty attribute: None is
\* returned and the attribute stays None.
C5_Witness ==
  /\ call.op = "pre_save"
  /\ ~field.auto
  /\ call.add
  /\ call.arg = None
  /\ call.ret = None
  /\ instance = None

\* C6: db_type is 'uuid' on PostgreSQL, 'binary(16)' on MySQL, 'char(32)' on
\* every other backend and without a connection, whatever max_length the
\* constructor was given.
C6_DbType ==
  call.op = "db_type"
    => /\ call.connection = Connection(VendorPostgresql) => call.ret = TypeUuid
       /\ call.connection = Connection(VendorMysql) => call.ret = TypeBinary16
       /\ call.connection \in {Connection(VendorSqlite), Connection(VendorOracle), None}
            => call.ret = TypeChar32
       /\ field.max_length = 32

\* A field constructed with max_length=255 is asked for its type on SQLite.
C6_Witness ==
  /\ call.op = "db_type"
  /\ ctor.max_length = PyInt(255)
  /\ call.connection = Connection(VendorSqlite)
  /\ call.ret = TypeChar32

C8_Classify ==
  call.op = "to_python"
    => /\ ~Truthy(call.arg) => call.ret = None
       /\ call.arg.kind = "UUID" => call.ret = call.arg
       /\ (call.arg.kind = "str" /\ Len(call.arg.data) = 16)
            => (call.ret.kind = "UUID" /\ uuid_bytes(call.ret) = call.arg.data)
       /\ (call.arg.kind = "str" /\ Len(call.arg.data) \notin {0, 16})
            => /\ call.ret.kind \in {"UUID", "ValueError"}
               /\ call.ret.kind = "UUID"
                    => uuid_hex(call.ret) = lower(replace_dash(call.arg.data))
               /\ \A u \in UUIDs :
                    call.arg \in {Str(uuid_hex(u)), Str(uuid_str(u))} => call.ret = u

\* The dashed text of a UUID was converted to that UUID.
C8_Witness ==
  /\ call.op = "to_python"
  /\ call.arg.kind = "str"
  /\ Len(call.arg.data) = 36
  /\ call.ret.kind = "UUID"
  /\ call.arg = Str(uuid_str(call.ret))

\* C9: for every UUID u and backend, get_db_prep_value of u's dashed text and
\* of u's hex text returns what it returns for the object u, and to_python of
\* that stored value is u.
C9_SameStored ==
  \A u \in UUIDs :
    /\ (call.op = "get_db_prep_value"
        /\ call.arg \in {Str(uuid_str(u)), Str(uuid_hex(u))})
         => /\ call.ret = get_db_prep_value(field, u, call.connection)
            /\ to_python(call.ret) = u
    /\ (call.op = "to_python"
        /\ call.source \in {Str(uuid_str(u)), Str(uuid_hex(u)), u})
         => call.ret = u

\* The dashed text of a UUID was prepared for PostgreSQL and came out as the
\* 32 hex digits the UUID object gives.
C9_Witness ==
  /\ call.op = "get_db_prep_value"
  /\ call.connection = Connection(VendorPostgresql)
  /\ \E u \in UUIDs :
       /\ call.arg = Str(uuid_str(u))
       /\ call.ret = Str(uuid_hex(u))

\* C10: unless the caller assigns, a non-empty attribute never changes again
\* and pre_save returns it; the attribute changes only in a pre_save of an
\* auto field on insert, from empty to a UUID.
C10_AtMostOnce ==
  [][call'.op # "__set__"
       => /\ Truthy(instance) => instance' = instance
          /\ (Truthy(instance) /\ call'.op = "pre_save") => call'.ret = instance
          /\ instance' # instance
               => /\ call'.op = "pre_save"
                  /\ field.auto
                  /\ call'.add
                  /\ ~Truthy(instance)
                  /\ instance'.kind = "UUID"]_vars

\* A later insert call on an auto field found the generated value and
\* returned it.
C10_Witness ==
  /\ call.op = "pre_save"
  /\ field.auto
  /\ call.add
  /\ call.arg \in create_uuid(field)
  /\ call.ret = call.arg
  /\ instance = call.arg

====
